---- MODULE Spec2Model ----
(***************************************************************************)
(* The frontier-expansion engine of kkrasta_keyworder.py: the shared       *)
(* keyword queue, the set of scraped keywords, one worker per selected     *)
(* search engine (KeywordSheeter.scrape_keywords_worker) and the           *)
(* coordinating thread (KeywordSheeter.start_scraping).                    *)
(*                                                                         *)
(* A text is a sequence of tokens; the token " " is whitespace and every   *)
(* other token is a printable run of characters.  A value returned by an   *)
(* upstream engine that is not a string is the item NonStr.                *)
(***************************************************************************)
EXTENDS Integers, Sequences, FiniteSets, TLC

\* ------------------------------------------------------------------ bounds
MaxSeeds == 2
MaxSuggestions == 2
MaxPerEngine == 2
FailSeeds == 6
MaxProxies == 2
MaxCalls == 2

\* ------------------------------------------------------- program constants
max_consecutive_failures == 5
MaxKeywordLength == 200
SuggestionLimit == 20
retry_wait == 2

\* -------------------------------------------------------------------- data
Engines == {"Bing", "Amazon"}

shoes == <<"shoes">>
running_shoes == <<"running", " ", "shoes">>
boots == <<"boots">>
padded_boots == <<"boots", " ">>
widget == <<"widget">>
blue_widget == <<"blue", " ", "widget">>
blank == <<" ">>
NonStr == <<"<number>">>
None == <<"<none>">>
Unlocked == "<unlocked>"

\* The i-th proxy endpoint, and the list of the first n.
Endpoint(i) == "proxy" \o ToString(i)
ProxyList(n) == [i \in 1..n |-> Endpoint(i)]

\* The i-th of a list of distinct one-word keywords.
Numbered(i) == <<"kw" \o ToString(i)>>

\* The texts an unrestricted upstream engine answers with; NonStr stands for
\* a JSON value that is no string.
Vocabulary == {shoes, boots}
Items == Vocabulary \cup {NonStr}

\* Every text that can be put in the queue in some run.
Keywords ==
    Vocabulary \cup {running_shoes, padded_boots, widget, blue_widget}
        \cup {Numbered(i) : i \in 1..FailSeeds}

RECURSIVE lstrip(_)
lstrip(t) == IF t # <<>> /\ Head(t) = " " THEN lstrip(Tail(t)) ELSE t

RECURSIVE rstrip(_)
rstrip(t) ==
    IF t # <<>> /\ t[Len(t)] = " " THEN rstrip(SubSeq(t, 1, Len(t) - 1)) ELSE t

\* str.strip()
strip(t) == rstrip(lstrip(t))

\* Sequences over S of length lo..hi.
SeqsOf(S, lo, hi) == UNION {[1..n -> S] : n \in lo..hi}

Range(s) == {s[i] : i \in 1..Len(s)}

Min(a, b) == IF a < b THEN a ELSE b

\* How many entries of s equal x.
Count(s, x) == Cardinality({i \in 1..Len(s) : s[i] = x})

VARIABLES
    \* configuration, fixed for a run
    seed_keywords,            \* what get_seed_keywords() returned
    selected_engines,         \* the engines chosen, in order
    max_threads,              \* scraping_config.max_threads
    max_keywords_per_engine,  \* scraping_config.max_keywords_per_engine
    save_to_file,             \* scraping_config.save_to_file and output_file
    write_errors,             \* whether appending to the output file can raise
    delay_between_requests,   \* scraping_config.delay_between_requests, in seconds
    source,                   \* how each engine's upstream answers
    \* shared state of KeywordSheeter
    keyword_queue,
    scraped_keywords,
    results_lock,             \* the engine holding the lock, or Unlocked
    stop_event,
    output_file,              \* the lines of the output file
    \* the coordinating thread
    main_pc,
    reported,
    \* one worker per engine
    pc,
    keyword,
    scraped_count,
    consecutive_failures,
    \* history
    puts,                     \* per keyword, how many times it was put in the queue
    queries,                  \* per engine, every keyword handed to get_suggestions
    declined,                 \* suggestions left out because they were scraped already
    queries_at_stop,          \* per engine, Len(queries) when the stop event was
                              \* set, in the runs that record it
    slept,                    \* per engine, the seconds it slept since its latest query
    zero_results,             \* per engine, its queries that returned [] since its
                              \* last query that returned suggestions
    failed_queries,           \* the same, a query whose suggestions raised an
                              \* exception counted as failed, not as returning some
    \* ProxyConfig, shared by the clients of all engines
    proxies,                  \* proxy_config.proxies; empty: proxies not enabled
    current_proxy_index,
    \* one call of get_next_proxy per engine at a time
    proxy_pc,
    proxy,                    \* the local variable proxy of the call
    next_index,               \* the value computed for current_proxy_index
    handed                    \* history: every endpoint returned, in order of return

config == <<seed_keywords, selected_engines, max_threads,
            max_keywords_per_engine, save_to_file, write_errors,
            delay_between_requests, source>>
shared == <<keyword_queue, scraped_keywords, results_lock, stop_event, output_file>>
mainv == <<main_pc, reported>>
locals == <<pc, keyword, scraped_count, consecutive_failures>>
history == <<puts, queries, declined, queries_at_stop, slept, zero_results,
             failed_queries>>
proxyv == <<proxies, current_proxy_index, proxy_pc, proxy, next_index, handed>>
vars == <<config, shared, mainv, locals, history, proxyv>>

\* ------------------------------------------------------------ pure helpers

\* SearchEngineClient._validate_keyword
validate_keyword(k) ==
    /\ k # <<>>
    /\ strip(k) # <<>>
    /\ Len(strip(k)) <= MaxKeywordLength

\* The validation loop that ends get_seed_keywords: the typed entries are
\* stripped, empty ones dropped, over-long ones skipped.
get_seed_keywords(typed) ==
    LET stripped == [i \in 1..Len(typed) |-> strip(typed[i])]
        nonempty == SelectSeq(stripped, LAMBDA k : k # <<>>)
    IN  SelectSeq(nonempty, LAMBDA k : Len(k) <= MaxKeywordLength)

\* What an engine's upstream may answer to a query for k: the list of values
\* the client extracts from the response.  A failed request and an
\* unparsable payload both end in the empty list.
Upstream(e, k) ==
    CASE source[e] = "any"     -> SeqsOf(Items, 0, MaxSuggestions)
      [] source[e] = "single"  -> SeqsOf(Items, 0, 1)
      [] source[e] = "words"   ->
             SeqsOf(Vocabulary \cup {running_shoes}, 0, MaxSuggestions)
      [] source[e] = "padded"  -> SeqsOf({boots, padded_boots}, 0, 1)
      [] source[e] = "failing" -> {<<>>}
      [] source[e] = "known"   -> SeqsOf(Range(seed_keywords), 0, MaxSuggestions)
      [] source[e] = "shoes"   -> IF k = shoes THEN {<<running_shoes, shoes>>}
                                               ELSE {<<>>}
      [] source[e] = "widget"  -> IF k = widget THEN {<<blue_widget>>}
                                                ELSE {<<>>}

\* <Engine>Client.get_suggestions: no request for an invalid keyword; the
\* keyword itself is dropped from the answer, which is cut to the limit.
get_suggestions(k, answer) ==
    IF ~validate_keyword(k) THEN <<>>
    ELSE LET kept == SelectSeq(answer, LAMBDA s : s # k)
         IN  SubSeq(kept, 1, Min(Len(kept), SuggestionLimit))

\* Mutant of save_keyword: the file is never appended to.
save_keyword_never(file, k, written) == file

\* Mutant of save_keyword: the line is written twice.
save_keyword_twice(file, k, written) == Append(Append(file, k), k)

\* KeywordSheeter._save_keyword: the lines of the output file afterwards.
\* written is FALSE when open() or write() raised, which is logged only.
save_keyword(file, k, written) ==
    IF save_to_file /\ written THEN Append(file, k) ELSE file

WriteOutcomes == IF write_errors THEN {TRUE, FALSE} ELSE {TRUE}

\* Mutant of save_raises: no except clause around the write.
save_raises_uncaught(written) == ~written

\* The try/except of _save_keyword: whether an error of open() or write()
\* leaves the function.  It is logged and goes no further.
save_raises(written) == FALSE

\* Mutant of sleep_after: no sleep at all.
sleep_after_nothing(raised) == 0

\* The sleep that ends an iteration in which a query was made: after
\* scraped_count += 1 the configured delay, when it is positive; in
\* "except Exception" a fixed number of seconds.
sleep_after(raised) == IF raised THEN retry_wait ELSE delay_between_requests

\* Mutant of LockFree: the two blocks are not mutually exclusive.
LockNeverHeld == TRUE

\* threading.Lock: acquire succeeds only while nobody holds the lock.
LockFree == results_lock = Unlocked

Selected == Range(selected_engines)

\* A worker whose function returned ("halted": the while condition failed,
\* "starved": the queue stayed empty), or whose work item was cancelled.
Terminal(e) == pc[e] \in {"halted", "starved", "cancelled"}

\* Workers that occupy a pool thread.
Running == {e \in Selected : pc[e] \notin {"unsubmitted", "pending"} /\ ~Terminal(e)}

\* The position of engine e in selected_engines.
IndexOf(e) == CHOOSE i \in 1..Len(selected_engines) : selected_engines[i] = e

\* -------------------------------------------------------------------- Init

InitWith(typedSeeds, engineLists, modes, threads, caps, saves, faults, delays, proxyLists) ==
    /\ \E typed \in typedSeeds : seed_keywords = get_seed_keywords(typed)
    /\ seed_keywords # <<>>
    /\ selected_engines \in engineLists
    /\ max_threads \in threads
    /\ max_keywords_per_engine \in caps
    /\ save_to_file \in saves
    /\ write_errors \in faults
    /\ delay_between_requests \in delays
    /\ source \in [Engines -> modes]
    /\ keyword_queue = <<>>
    /\ scraped_keywords = {}
    /\ results_lock = Unlocked
    /\ stop_event = FALSE
    /\ output_file = <<>>
    /\ main_pc = "seed"
    /\ reported = -1
    /\ pc = [e \in Engines |-> "unsubmitted"]
    /\ keyword = [e \in Engines |-> None]
    /\ scraped_count = [e \in Engines |-> 0]
    /\ consecutive_failures = [e \in Engines |-> 0]
    /\ puts = [k \in Keywords |-> 0]
    /\ queries = [e \in Engines |-> <<>>]
    /\ declined = {}
    /\ queries_at_stop = [e \in Engines |-> 0]
    /\ slept = [e \in Engines |-> 0]
    /\ zero_results = [e \in Engines |-> 0]
    /\ failed_queries = [e \in Engines |-> 0]
    /\ proxies \in proxyLists
    /\ current_proxy_index = 0
    /\ proxy_pc = [e \in Engines |-> "idle"]
    /\ proxy = [e \in Engines |-> None]
    /\ next_index = [e \in Engines |-> 0]
    /\ handed = <<>>

TypedSeeds == SeqsOf({shoes, boots, <<"shoes", " ">>, blank}, 1, MaxSeeds)

Init ==
    InitWith(TypedSeeds, {<<"Bing", "Amazon">>}, {"any"}, {1, 2},
             1..MaxPerEngine, {TRUE}, {FALSE}, {1}, {<<>>})

\* ------------------------------------------------- start_scraping (main)

\* for keyword in seed_keywords: self.keyword_queue.put(keyword)
SeedQueue ==
    /\ main_pc = "seed"
    /\ keyword_queue' = keyword_queue \o seed_keywords
    /\ puts' = [k \in Keywords |-> puts[k] + Count(seed_keywords, k)]
    /\ main_pc' = "submit"
    /\ UNCHANGED <<config, proxyv, scraped_keywords, results_lock, stop_event,
                   output_file, reported, locals, queries, declined,
                   queries_at_stop, slept, zero_results, failed_queries>>

\* for engine in self.selected_engines: executor.submit(...)
SubmitWorkers ==
    /\ main_pc = "submit"
    /\ pc' = [e \in Engines |-> IF e \in Selected THEN "pending" ELSE pc[e]]
    /\ main_pc' = "wait"
    /\ UNCHANGED <<config, proxyv, shared, reported, keyword, scraped_count, consecutive_failures, history>>

\* Mutant of StartWorker: a thread for every work item, whatever max_threads.
StartWorkerUnbounded(e) ==
    /\ e \in Selected
    /\ pc[e] = "pending"
    /\ \A f \in Selected : IndexOf(f) < IndexOf(e) => pc[f] # "pending"
    /\ pc' = [pc EXCEPT ![e] = "loop"]
    /\ UNCHANGED <<config, proxyv, shared, mainv, keyword, scraped_count, consecutive_failures, history>>

\* A pool thread takes the oldest submitted work item; the pool has at most
\* max_threads threads.
StartWorker(e) ==
    /\ e \in Selected
    /\ pc[e] = "pending"
    /\ \A f \in Selected : IndexOf(f) < IndexOf(e) => pc[f] # "pending"
    /\ Cardinality(Running) < max_threads
    /\ pc' = [pc EXCEPT ![e] = "loop"]
    /\ UNCHANGED <<config, proxyv, shared, mainv, keyword, scraped_count, consecutive_failures, history>>

\* while not all(f.done() for f in futures): time.sleep(1)
WaitDone ==
    /\ main_pc = "wait"
    /\ \A e \in Selected : Terminal(e)
    /\ main_pc' = "exit"
    /\ UNCHANGED <<config, proxyv, shared, reported, locals, history>>

\* except KeyboardInterrupt: self.stop_event.set().  snapshot is what
\* queries_at_stop holds afterwards.
StopSet(snapshot) ==
    /\ main_pc = "wait"
    /\ stop_event' = TRUE
    /\ main_pc' = "grace"
    /\ queries_at_stop' = snapshot
    /\ UNCHANGED <<config, proxyv, keyword_queue, scraped_keywords, results_lock,
                   output_file, reported, locals, puts, queries, declined,
                   slept, zero_results, failed_queries>>

Interrupt == StopSet(queries_at_stop)

\* The same step, with the number of queries of each worker recorded.
InterruptRecorded == StopSet([e \in Engines |-> Len(queries[e])])

\* for future in futures: future.result(timeout=5), and future.cancel() when
\* that raises.  cancel() only takes a work item that no thread has started;
\* a running worker is left to finish.
GraceJoin ==
    /\ main_pc = "grace"
    /\ pc' = [e \in Engines |-> IF pc[e] = "pending" THEN "cancelled" ELSE pc[e]]
    /\ main_pc' = "exit"
    /\ UNCHANGED <<config, proxyv, shared, reported, keyword, scraped_count,
                   consecutive_failures, history>>

\* Leaving the with block joins the pool threads; then the final report.
ExitPool ==
    /\ main_pc = "exit"
    /\ \A e \in Selected : Terminal(e)
    /\ reported' = Cardinality(scraped_keywords)
    /\ main_pc' = "finished"
    /\ UNCHANGED <<config, proxyv, shared, locals, history>>


\* ------------------------------------------- scrape_keywords_worker(engine)

\* Mutant of LoopCondition: the failure counter is compared with <=.
LoopConditionOffByOne(e) ==
    /\ ~stop_event
    /\ scraped_count[e] < max_keywords_per_engine
    /\ consecutive_failures[e] <= max_consecutive_failures

\* Mutant of LoopCondition: the stop event is not looked at.
LoopConditionIgnoresStop(e) ==
    /\ scraped_count[e] < max_keywords_per_engine
    /\ consecutive_failures[e] < max_consecutive_failures

\* Mutant of LoopCondition: the processed count is not looked at.
LoopConditionIgnoresCap(e) ==
    /\ ~stop_event
    /\ consecutive_failures[e] < max_consecutive_failures

\* The while condition.
LoopCondition(e) ==
    /\ ~stop_event
    /\ scraped_count[e] < max_keywords_per_engine
    /\ consecutive_failures[e] < max_consecutive_failures

\* Mutant of LoopTop: while True.
LoopTopNeverExits(e) ==
    /\ pc[e] = "loop"
    /\ pc' = [pc EXCEPT ![e] = "get"]
    /\ UNCHANGED <<config, proxyv, shared, mainv, keyword, scraped_count, consecutive_failures, history>>

LoopTop(e) ==
    /\ pc[e] = "loop"
    /\ pc' = [pc EXCEPT ![e] = IF LoopCondition(e) THEN "get" ELSE "halted"]
    /\ UNCHANGED <<config, proxyv, shared, mainv, keyword, scraped_count, consecutive_failures, history>>

\* keyword = self.keyword_queue.get(timeout=5)
Get(e) ==
    /\ pc[e] = "get"
    /\ keyword_queue # <<>>
    /\ keyword' = [keyword EXCEPT ![e] = Head(keyword_queue)]
    /\ keyword_queue' = Tail(keyword_queue)
    /\ pc' = [pc EXCEPT ![e] = "admit"]
    /\ UNCHANGED <<config, proxyv, scraped_keywords, results_lock, stop_event,
                   output_file, mainv, scraped_count,
                   consecutive_failures, history>>

\* Mutant of GetEmpty: get() without a timeout, which waits for ever.
GetBlocks(e) ==
    /\ pc[e] = "get"
    /\ keyword_queue = <<>>
    /\ UNCHANGED vars

\* Mutant of GetEmpty: Empty is raised whatever the queue holds.
GetEmptySpurious(e) ==
    /\ pc[e] = "get"
    /\ pc' = [pc EXCEPT ![e] = "starved"]
    /\ UNCHANGED <<config, proxyv, shared, mainv, keyword, scraped_count, consecutive_failures, history>>

\* except Empty: break.  The queue stayed empty for the whole timeout.
GetEmpty(e) ==
    /\ pc[e] = "get"
    /\ keyword_queue = <<>>
    /\ pc' = [pc EXCEPT ![e] = "starved"]
    /\ UNCHANGED <<config, proxyv, shared, mainv, keyword, scraped_count, consecutive_failures, history>>

\* with self.results_lock: if keyword in self.scraped_keywords: continue
TestScraped(e) ==
    /\ pc[e] = "admit"
    /\ LockFree
    /\ IF keyword[e] \in scraped_keywords
         THEN /\ results_lock' = Unlocked
              /\ pc' = [pc EXCEPT ![e] = "loop"]
         ELSE /\ results_lock' = e
              /\ pc' = [pc EXCEPT ![e] = "add"]
    /\ UNCHANGED <<config, proxyv, keyword_queue, scraped_keywords, stop_event,
                   output_file, mainv, keyword, scraped_count,
                   consecutive_failures, history>>

\* Mutant of AddScraped: the keyword is not added to the set.
AddScrapedForgets(e) ==
    /\ pc[e] = "add"
    /\ results_lock' = Unlocked
    /\ pc' = [pc EXCEPT ![e] = "query"]
    /\ UNCHANGED <<config, proxyv, keyword_queue, scraped_keywords, stop_event,
                   output_file, mainv, keyword, scraped_count,
                   consecutive_failures, history>>

\* self.scraped_keywords.add(keyword), and the lock is released.
AddScraped(e) ==
    /\ pc[e] = "add"
    /\ scraped_keywords' = scraped_keywords \cup {keyword[e]}
    /\ results_lock' = Unlocked
    /\ pc' = [pc EXCEPT ![e] = "query"]
    /\ UNCHANGED <<config, proxyv, keyword_queue, stop_event, output_file, mainv,
                   keyword, scraped_count, consecutive_failures,
                   history>>

\* if suggestion not in self.scraped_keywords and len(suggestion.strip()) > 0
\* The membership test comes first; strip() exists on strings only.
Raises(s) == s \notin scraped_keywords /\ s = NonStr

\* Mutant of Accepted: no look at scraped_keywords.
AcceptedUnseen(s) == Len(strip(s)) > 0

Accepted(s) == s \notin scraped_keywords /\ Len(strip(s)) > 0

\* "for suggestion in suggestions" from the i-th suggestion on, run under
\* results_lock, so scraped_keywords does not change meanwhile.  acc holds
\* the queue, the put counts, the output file and the declined set so far; written[i] tells
\* whether the i-th write to the file succeeds.  raised: the loop was left
\* by an exception.
RECURSIVE EachSuggestion(_, _, _, _)
EachSuggestion(found, i, written, acc) ==
    IF i > Len(found) THEN acc
    ELSE LET s == found[i] IN
         IF Raises(s) THEN [acc EXCEPT !.raised = TRUE]
         ELSE IF Accepted(s)
           THEN LET saved == [queue  |-> Append(acc.queue, s),
                              puts   |-> [acc.puts EXCEPT ![s] = @ + 1],
                              file   |-> save_keyword(acc.file, s, written[i]),
                              raised |-> save_raises(written[i]),
                              declined |-> acc.declined]
                IN  IF saved.raised THEN saved
                    ELSE EachSuggestion(found, i + 1, written, saved)
           ELSE EachSuggestion(found, i + 1, written,
                    [acc EXCEPT !.declined =
                        IF s \in scraped_keywords THEN @ \cup {s} ELSE @])

\* suggestions = client.get_suggestions(keyword) and what follows it in the
\* iteration.  An empty list: the else branch, scraped_count += 1, the sleep.
\* A non-empty list: the failure counter is reset and the list is handled
\* under results_lock, then scraped_count += 1 and the sleep; an exception
\* in the loop lands in "except Exception", where the failure counter goes
\* up and scraped_count does not.  The answer does not depend on the shared
\* state, so the request is placed at the moment the lock is taken.  The
\* sleep that ends the iteration is part of the step.
Query(e) ==
    /\ pc[e] = "query"
    /\ \E answer \in Upstream(e, keyword[e]) :
         LET found == get_suggestions(keyword[e], answer) IN
           IF found = <<>>
             THEN /\ consecutive_failures' =
                       [consecutive_failures EXCEPT ![e] = @ + 1]
                  /\ scraped_count' = [scraped_count EXCEPT ![e] = @ + 1]
                  /\ zero_results' = [zero_results EXCEPT ![e] = @ + 1]
                  /\ failed_queries' = [failed_queries EXCEPT ![e] = @ + 1]
                  /\ slept' = [slept EXCEPT ![e] = sleep_after(FALSE)]
                  /\ UNCHANGED <<keyword_queue, puts, output_file, declined>>
             ELSE /\ LockFree
                  /\ \E written \in [1..Len(found) -> WriteOutcomes] :
                       LET r == EachSuggestion(found, 1, written,
                                    [queue |-> keyword_queue, puts |-> puts,
                                     file |-> output_file, raised |-> FALSE,
                                     declined |-> declined])
                       IN  /\ keyword_queue' = r.queue
                           /\ puts' = r.puts
                           /\ output_file' = r.file
                           /\ declined' = r.declined
                           /\ consecutive_failures' =
                                [consecutive_failures EXCEPT
                                   ![e] = IF r.raised THEN 1 ELSE 0]
                           /\ scraped_count' =
                                [scraped_count EXCEPT
                                   ![e] = IF r.raised THEN @ ELSE @ + 1]
                           /\ zero_results' = [zero_results EXCEPT ![e] = 0]
                           /\ failed_queries' =
                                [failed_queries EXCEPT
                                   ![e] = IF r.raised THEN @ + 1 ELSE 0]
                           /\ slept' =
                                [slept EXCEPT ![e] = sleep_after(r.raised)]
    /\ queries' = [queries EXCEPT ![e] = Append(@, keyword[e])]
    /\ pc' = [pc EXCEPT ![e] = "loop"]
    /\ UNCHANGED <<config, proxyv, scraped_keywords, results_lock, stop_event,
                   mainv, keyword, queries_at_stop>>

\* -------------------------------------------------------------------- Next

Worker(e) ==
    \/ StartWorker(e)
    \/ LoopTop(e)
    \/ Get(e)
    \/ GetEmpty(e)
    \/ TestScraped(e)
    \/ AddScraped(e)
    \/ Query(e)

Main ==
    \/ SeedQueue
    \/ SubmitWorkers
    \/ WaitDone
    \/ Interrupt
    \/ GraceJoin
    \/ ExitPool

Next == Main \/ \E e \in Engines : Worker(e)

Spec == Init /\ [][Next]_vars

\* Every thread keeps being scheduled, and every blocking call of the code is
\* bounded: get(timeout=5), the sleeps, the request timeout, the lock that
\* is released at the end of each with block.  Ctrl+C is up to the operator.
Fairness ==
    /\ WF_vars(SeedQueue \/ SubmitWorkers \/ WaitDone \/ GraceJoin \/ ExitPool)
    /\ \A e \in Engines : WF_vars(Worker(e))

FairSpec == Spec /\ Fairness

\* Every source fails on every query; more seeds than the breaker needs.
InitFail ==
    InitWith({[i \in 1..FailSeeds |-> Numbered(i)]}, {<<"Bing", "Amazon">>},
             {"failing"}, {1, 2}, {FailSeeds}, {TRUE}, {FALSE}, {1}, {<<>>})

SpecFail == InitFail /\ [][Next]_vars

\* The sources answer with nothing or with seeds only.
InitStarve ==
    InitWith(TypedSeeds, {<<"Bing", "Amazon">>}, {"known"}, {1, 2},
             1..MaxPerEngine, {TRUE}, {FALSE}, {1}, {<<>>})

SpecStarve == InitStarve /\ [][Next]_vars /\ Fairness

\* Every answer holds at most one value, a string or not.
InitStop ==
    InitWith(TypedSeeds, {<<"Bing", "Amazon">>}, {"single"}, {1, 2},
             1..MaxPerEngine, {TRUE}, {FALSE}, {1}, {<<>>})

SpecStop == InitStop /\ [][Next]_vars /\ Fairness

\* The runs of InitStop with the query counts recorded at the stop.
NextRecorded ==
    \/ SeedQueue
    \/ SubmitWorkers
    \/ WaitDone
    \/ InterruptRecorded
    \/ GraceJoin
    \/ ExitPool
    \/ \E e \in Engines : Worker(e)

SpecRecorded == InitStop /\ [][NextRecorded]_vars

\* One engine, the seed shoes, and the scripted answers of the scenario;
\* the largest cap lets the worker run until the queue is empty.
InitShoes ==
    InitWith({<<shoes>>, <<<<"shoes", " ">>>>}, {<<"Bing">>, <<"Amazon">>},
             {"shoes"}, {1, 2}, 1..(MaxPerEngine + 1), {TRUE}, {FALSE}, {1}, {<<>>})

SpecShoes == InitShoes /\ [][Next]_vars

\* One engine, whose upstream answers with strings only; a write to the
\* output file can fail.
InitWrite ==
    InitWith({<<shoes>>}, {<<"Bing">>, <<"Amazon">>}, {"words"}, {1, 2},
             1..MaxPerEngine, {TRUE}, {TRUE}, {1}, {<<>>})

SpecWrite == InitWrite /\ [][Next]_vars

\* A delay below and a delay above the wait of the except branch; every
\* answer holds at most one value, a string or not.
InitDelay ==
    InitWith(TypedSeeds, {<<"Bing", "Amazon">>}, {"single"}, {1, 2},
             1..MaxPerEngine, {TRUE}, {FALSE}, {1, 3}, {<<>>})

SpecDelay == InitDelay /\ [][Next]_vars

\* One engine or two, and a pool of one, two or three threads.
InitPool ==
    InitWith(TypedSeeds, {<<"Bing">>, <<"Bing", "Amazon">>, <<"Amazon", "Bing">>},
             {"single"}, {1, 2, 3}, 1..MaxPerEngine, {TRUE}, {FALSE}, {1}, {<<>>})

SpecPool == InitPool /\ [][Next]_vars

\* Every answer holds at most one string, with or without a space at its
\* end.
InitPadded ==
    InitWith(TypedSeeds, {<<"Bing", "Amazon">>}, {"padded"}, {1, 2},
             1..MaxPerEngine, {TRUE}, {FALSE}, {1}, {<<>>})

SpecPadded == InitPadded /\ [][Next]_vars

\* Two engines, the seed widget; both upstreams answer the query for widget
\* with blue widget and every other query with nothing.
InitWidget ==
    InitWith({<<widget>>}, {<<"Bing", "Amazon">>}, {"widget"}, {1, 2},
             1..(MaxPerEngine + 1), {TRUE}, {FALSE}, {1}, {<<>>})

SpecWidget == InitWidget /\ [][Next]_vars

\* ------------------------------------------ ProxyConfig.get_next_proxy
\* With proxies enabled, the client of each engine calls
\* proxy_config.get_next_proxy() from _get_proxies() once per request, in the
\* thread of its worker and outside results_lock; all clients hold the same
\* ProxyConfig object.  The call is three steps of the interpreter, between
\* which another thread can run.  What the worker does around the request
\* is left out here: each client makes up to MaxCalls calls.

\* The calls client e has completed.
CallsOf(e) == Cardinality({i \in 1..Len(handed) : handed[i].by = e})

\* proxy = self.proxies[self.current_proxy_index]
LoadProxy(e) ==
    /\ proxy_pc[e] = "idle"
    /\ proxies # <<>>
    /\ CallsOf(e) < MaxCalls
    /\ proxy' = [proxy EXCEPT ![e] = proxies[current_proxy_index + 1]]
    /\ proxy_pc' = [proxy_pc EXCEPT ![e] = "loaded"]
    /\ UNCHANGED <<config, shared, mainv, locals, history, proxies,
                   current_proxy_index, next_index, handed>>

\* The right-hand side: (self.current_proxy_index + 1) % len(self.proxies)
ComputeIndex(e) ==
    /\ proxy_pc[e] = "loaded"
    /\ next_index' = [next_index EXCEPT
                        ![e] = (current_proxy_index + 1) % Len(proxies)]
    /\ proxy_pc' = [proxy_pc EXCEPT ![e] = "computed"]
    /\ UNCHANGED <<config, shared, mainv, locals, history, proxies,
                   current_proxy_index, proxy, handed>>

\* The store to self.current_proxy_index, and return proxy.
StoreIndex(e) ==
    /\ proxy_pc[e] = "computed"
    /\ current_proxy_index' = next_index[e]
    /\ handed' = Append(handed, [by |-> e, proxy |-> proxy[e]])
    /\ proxy_pc' = [proxy_pc EXCEPT ![e] = "idle"]
    /\ UNCHANGED <<config, shared, mainv, locals, history, proxies, proxy,
                   next_index>>

NextProxy ==
    \E e \in Engines : LoadProxy(e) \/ ComputeIndex(e) \/ StoreIndex(e)

\* Proxies enabled with a list of distinct endpoints.
InitProxy ==
    InitWith({<<shoes>>}, {<<"Bing", "Amazon">>}, {"any"}, {2}, {1}, {TRUE},
             {FALSE}, {1}, {ProxyList(n) : n \in 1..MaxProxies})

SpecProxy == InitProxy /\ [][NextProxy]_vars

\* --------------------------------------------------------------- claims

\* Everything queried so far by any worker, with repetitions.
QueriesOf(k) == {<<e, i>> \in Engines \X (1..Cardinality(Keywords)) :
                    i <= Len(queries[e]) /\ queries[e][i] = k}

\* Worker e popped keyword k and left it out as scraped already.
Skipped(e, k) ==
    /\ pc[e] \in {"loop", "get", "halted", "starved"}
    /\ keyword[e] = k
    /\ \A i \in 1..Len(queries[e]) : queries[e][i] # k

\* C1: each keyword is written to the sink at most once, also when the same
\* suggestion is returned several times before it has been popped.
C1_SinkWritesUnique ==
    \A k \in Keywords : Count(output_file, k) <= 1

C3_AdmitIsAtomic ==
    /\ \A k \in Keywords : Cardinality(QueriesOf(k)) <= 1
    /\ \A e, f \in Engines :
         (e # f /\ pc[e] \in {"add", "query"} /\ pc[f] \in {"add", "query"})
            => keyword[e] # keyword[f]

\* Two workers popped the same keyword; one is querying it, the other left
\* it out.
C3_Witness ==
    \E e, f \in Engines :
        /\ e # f
        /\ pc[e] = "query"
        /\ Skipped(f, keyword[e])

C6_QueriesWithinCap ==
    \A e \in Engines : Len(queries[e]) <= max_keywords_per_engine

\* C5: a worker whose source fails on every query stops querying after
\* exactly max_consecutive_failures failed queries: never a query more, and
\* when the while condition ends it with neither the stop event nor the cap
\* in the way, never a query fewer.
C5_BreakerTripsAtThreshold ==
    \A e \in Engines :
        source[e] = "failing" =>
            /\ Len(queries[e]) <= max_consecutive_failures
            /\ (pc[e] = "halted" /\ ~stop_event
                   /\ scraped_count[e] < max_keywords_per_engine)
                 => Len(queries[e]) = max_consecutive_failures

\* A worker was halted by its failure counter while the queue still held
\* keywords.
C5_Witness ==
    \E e \in Engines :
        /\ source[e] = "failing"
        /\ pc[e] = "halted"
        /\ ~stop_event
        /\ consecutive_failures[e] = max_consecutive_failures
        /\ Len(queries[e]) = max_consecutive_failures
        /\ keyword_queue # <<>>

\* C7: with sources that return no new suggestions every worker ends and the
\* coordinator completes the run.
C7_StarvationTerminates ==
    <>(main_pc = "finished" /\ \A e \in Selected : Terminal(e))

\* The run completed with no stop event and a worker ended on the empty
\* queue.
C7_Witness ==
    /\ main_pc = "finished"
    /\ ~stop_event
    /\ \E e \in Selected : pc[e] = "starved"

\* C10 as stated: after the run the sink holds exactly shoes and
\* running shoes, each once.
C10_SinkHasSeedAndSuggestion ==
    (main_pc = "finished" /\ ~stop_event) =>
        /\ Len(output_file) = 2
        /\ Count(output_file, shoes) = 1
        /\ Count(output_file, running_shoes) = 1

\* C10 as amended: after the run the sink holds running shoes once and
\* nothing else; the seed is never written, the echoed shoes neither.
C10_SinkHasSuggestionOnly ==
    (main_pc = "finished" /\ ~stop_event) => output_file = <<running_shoes>>

\* The run completed with no stop event after shoes was queried.
C10_Witness ==
    /\ main_pc = "finished"
    /\ ~stop_event
    /\ \E e \in Selected : queries[e] # <<>> /\ queries[e][1] = shoes

\* C9: once the stop event is set it stays set, a worker that evaluates its
\* while condition afterwards leaves the loop without another get, and
\* every worker ends.
C9_StopReachesEveryWorker ==
    /\ [][stop_event => stop_event']_vars
    /\ [][\A e \in Engines :
            (stop_event /\ pc[e] = "loop") => pc'[e] \in {"loop", "halted"}]_vars
    /\ stop_event ~> (\A e \in Selected : Terminal(e))

\* The stop event was set while a worker was inside an iteration, and every
\* worker has ended since.
C9_Witness ==
    /\ stop_event
    /\ \A e \in Selected : Terminal(e)
    /\ \E e \in Selected :
         /\ pc[e] = "halted"
         /\ scraped_count[e] < max_keywords_per_engine
         /\ consecutive_failures[e] < max_consecutive_failures
         /\ keyword_queue # <<>>

\* C11: with the seed widget and two sources that answer widget with
\* blue widget, the sink never holds blue widget twice, and after a run that
\* completed it holds blue widget exactly once, however the two workers
\* interleave.
C11_BlueWidgetOnce ==
    /\ Count(output_file, blue_widget) <= 1
    /\ (main_pc = "finished" /\ ~stop_event) => Count(output_file, blue_widget) = 1

\* The run completed; one worker queried widget, the other one blue widget.
C11_Witness ==
    /\ main_pc = "finished"
    /\ ~stop_event
    /\ Count(output_file, blue_widget) = 1
    /\ \E e, f \in Selected :
         e # f /\ queries[e] = <<widget>> /\ queries[f] = <<blue_widget>>

\* C12: each worker's consecutive_failures equals the number of its own
\* queries that failed or returned no suggestions since its last query that
\* returned some, whether a query whose suggestions raised an exception is
\* taken as one that returned suggestions or as one that failed.
C12_CounterIsFailureRun ==
    \A e \in Engines :
        \/ consecutive_failures[e] = zero_results[e]
        \/ consecutive_failures[e] = failed_queries[e]

\* C13: in a step in which a worker handles an answer and a write to the
\* output file fails (more keywords pushed than lines written),
\* scraped_keywords is unchanged, every keyword pushed in the step is in the
\* queue, the worker's failure counter is reset as after any answer with
\* suggestions, and the iteration ends as usual: scraped_count goes up and the
\* worker is back at its while condition.
C13_WriteFailureSwallowed ==
    [][\A e \in Engines :
          (/\ Len(queries'[e]) > Len(queries[e])
           /\ Len(output_file') - Len(output_file)
                 < Len(keyword_queue') - Len(keyword_queue))
          => /\ scraped_keywords' = scraped_keywords
             /\ \A k \in Keywords :
                   /\ Count(keyword_queue', k) - Count(keyword_queue, k)
                        = puts'[k] - puts[k]
                   /\ Count(output_file', k) - Count(output_file, k)
                        <= puts'[k] - puts[k]
             /\ consecutive_failures'[e] = 0
             /\ scraped_count'[e] = scraped_count[e] + 1
             /\ pc'[e] = "loop"]_vars

\* The answer to shoes was boots, running shoes; the write of boots failed,
\* boots stayed in the queue and running shoes was pushed and written after
\* it.
C13_Witness ==
    /\ keyword_queue = <<boots, running_shoes>>
    /\ output_file = <<running_shoes>>
    /\ scraped_keywords = {shoes}
    /\ \E e \in Selected :
         /\ queries[e] = <<shoes>>
         /\ pc[e] = "loop"
         /\ consecutive_failures[e] = 0
         /\ scraped_count[e] = 1

\* C14: when the run is over the reported count is the number of distinct
\* keywords that were put in the queue during the run, seeds and suggestions,
\* however the workers ended.
C14_ReportCountsAdmitted ==
    main_pc = "finished" =>
        reported = Cardinality({k \in Keywords : puts[k] >= 1})

C17_WaitBeforeEveryQuery ==
    \A e \in Engines :
        (delay_between_requests > 0 /\ pc[e] = "query") => slept[e] > 0

\* C17 as amended: a worker sleeps only at the end of an iteration in which
\* it made a query; its first query comes with no wait before it, and each
\* later one comes after the sleep that ended the iteration of the query
\* before: the configured delay, or the wait of the except branch.
C17_WaitFollowsQuery ==
    /\ [](\A e \in Engines :
            (delay_between_requests > 0 /\ pc[e] = "query") =>
                IF queries[e] = <<>>
                  THEN slept[e] = 0
                  ELSE slept[e] > 0
                       /\ slept[e] \in {delay_between_requests, retry_wait})
    /\ [][\A e \in Engines :
            slept'[e] # slept[e] => Len(queries'[e]) = Len(queries[e]) + 1]_vars

\* A worker is about to make its second query; it slept the configured
\* delay, the longer of the two, at the end of the iteration of its first.
C17_Witness ==
    \E e \in Selected :
        /\ pc[e] = "query"
        /\ Len(queries[e]) = 1
        /\ delay_between_requests > retry_wait
        /\ slept[e] = delay_between_requests

\* C15 as stated: whatever max_threads is, a submitted worker never has to
\* wait for a pool thread that another worker occupies.
C15_NoWorkerWaitsForThread ==
    \A e \in Selected : pc[e] = "pending" => Cardinality(Running) < max_threads

\* C15 as amended: one work item is submitted per selected engine and none
\* for the others, no worker is submitted or started a second time, at most
\* max_threads workers run at a time, and no submitted worker waits for a
\* thread when max_threads is at least the number of selected engines.
C15_OneWorkerEachUpToMaxThreads ==
    /\ [](\A e \in Engines \ Selected : pc[e] = "unsubmitted")
    /\ [](main_pc \notin {"seed", "submit"} =>
             \A e \in Selected : pc[e] # "unsubmitted")
    /\ [][\A e \in Engines :
            /\ pc[e] # "unsubmitted" => pc'[e] # "unsubmitted"
            /\ pc[e] \notin {"unsubmitted", "pending"} => pc'[e] # "pending"]_vars
    /\ [](Cardinality(Running) <= max_threads)
    /\ [](max_threads >= Cardinality(Selected) =>
             \A e \in Selected :
                 pc[e] = "pending" => Cardinality(Running) < max_threads)

\* With fewer threads than selected engines, a submitted worker waits while
\* the other one occupies the pool.
C15_Witness ==
    /\ max_threads < Cardinality(Selected)
    /\ Cardinality(Running) = max_threads
    /\ \E e \in Selected : pc[e] = "pending"
    /\ \E f \in Running : queries[f] # <<>>

\* C18 as stated: a worker's loop is not ended by the processed count alone;
\* when the while condition ends it, the stop event is set or the failure
\* counter has reached its threshold.
C18_CapDoesNotEndWorker ==
    [][\A e \in Engines :
          (pc[e] = "loop" /\ pc'[e] = "halted") =>
              \/ stop_event
              \/ consecutive_failures[e] >= max_consecutive_failures]_vars

\* C18 as amended: a worker whose processed count has reached
\* max_keywords_per_engine pops nothing more; at its next evaluation of the
\* while condition it leaves the loop, and the queue is left as it is.
C18_CapEndsWorker ==
    /\ [](\A e \in Engines :
            pc[e] \in {"get", "admit", "add", "query"} =>
                scraped_count[e] < max_keywords_per_engine)
    /\ [][\A e \in Engines :
            (/\ pc[e] = "loop"
             /\ scraped_count[e] >= max_keywords_per_engine
             /\ pc'[e] # pc[e])
            => pc'[e] = "halted" /\ keyword_queue' = keyword_queue]_vars

\* A worker ended by its processed count alone, with keywords left in the
\* queue.
C18_Witness ==
    \E e \in Selected :
        /\ pc[e] = "halted"
        /\ ~stop_event
        /\ consecutive_failures[e] < max_consecutive_failures
        /\ scraped_count[e] = max_keywords_per_engine
        /\ keyword_queue # <<>>

\* A text with no whitespace at either end, not empty, and within the
\* length limit.
Normalized(k) == k # <<>> /\ strip(k) = k /\ Len(k) <= MaxKeywordLength

\* C19: every keyword in the queue and every line of the output file is
\* normalized.
C19_QueueAndSinkNormalized ==
    /\ \A i \in 1..Len(keyword_queue) : Normalized(keyword_queue[i])
    /\ \A i \in 1..Len(output_file) : Normalized(output_file[i])

\* C20: once the grace period after a cancellation is over, the coordinator
\* can go on to its final report whether or not a worker is still running.
C20_ReportWithoutWaiting ==
    (stop_event /\ main_pc = "exit") => ENABLED ExitPool

\* C21: whenever no call of get_next_proxy is under way the cursor has
\* advanced once per completed call, and the first n calls on a list of n
\* endpoints returned every endpoint, so each exactly once.
C21_NoAdvanceLost ==
    proxies # <<>> =>
        /\ (\A e \in Engines : proxy_pc[e] = "idle") =>
               current_proxy_index = Len(handed) % Len(proxies)
        /\ Len(handed) >= Len(proxies) =>
               {handed[i].proxy : i \in 1..Len(proxies)} = Range(proxies)

\* C22: after the stop event is set a worker makes at most one more query,
\* and a worker that evaluates its while condition then leaves the loop.
C22_OneQueryAfterStop ==
    /\ [](\A e \in Engines :
            stop_event => Len(queries[e]) <= queries_at_stop[e] + 1)
    /\ [][\A e \in Engines :
            (stop_event /\ pc[e] = "loop" /\ pc'[e] # pc[e]) => pc'[e] = "halted"]_vars

\* A worker that had made a query before the stop event was set made one
\* more afterwards, pushed a suggestion, and left the loop with neither its
\* cap nor its failure counter in the way.
C22_Witness ==
    /\ stop_event
    /\ keyword_queue # <<>>
    /\ \E e \in Selected :
         /\ queries_at_stop[e] >= 1
         /\ Len(queries[e]) = queries_at_stop[e] + 1
         /\ pc[e] = "halted"
         /\ scraped_count[e] < max_keywords_per_engine
         /\ consecutive_failures[e] < max_consecutive_failures

\* C23: when the run is over and every worker ended on the empty queue, the
\* queue is empty and every keyword that was ever put in it has been queried
\* exactly once, its other copies skipped at the pop.  A worker ends on the
\* empty queue only, and when the last worker to end does so the queue is
\* left empty: keywords stay in the queue of a finished run only if some
\* worker ended otherwise, by its cap, its failure counter or the stop event.
C23_StarvedRunLeavesNothing ==
    /\ []((main_pc = "finished" /\ \A e \in Selected : pc[e] = "starved") =>
             /\ keyword_queue = <<>>
             /\ \A k \in Keywords :
                   puts[k] >= 1 =>
                       k \in scraped_keywords /\ Cardinality(QueriesOf(k)) = 1)
    /\ []((main_pc = "finished" /\ keyword_queue # <<>>) =>
             \E e \in Selected : pc[e] \in {"halted", "cancelled"})
    /\ [][\A e \in Selected :
            (pc[e] # "starved" /\ pc'[e] = "starved") =>
                /\ keyword_queue = <<>>
                /\ (\A f \in Selected \ {e} : Terminal(f)) =>
                       keyword_queue' = <<>>]_vars
    /\ [][(\A e \in Selected : Terminal(e)) =>
             keyword_queue' = keyword_queue]_vars

\* Two workers ended on the empty queue after a suggestion was pushed and
\* queried and a second copy of a keyword was skipped.
C23_Witness ==
    /\ main_pc = "finished"
    /\ ~stop_event
    /\ Cardinality(Selected) = 2
    /\ \A e \in Selected : pc[e] = "starved" /\ queries[e] # <<>>
    /\ keyword_queue = <<>>
    /\ \E k \in Keywords : puts[k] > Count(seed_keywords, k)
    /\ \E k \in Keywords : puts[k] >= 2

====
